---- MODULE Spec2Model ----
(***************************************************************************)
(* Model of the signature set (crypto/src/signature/mod.rs), of the block  *)
(* data model (data_model/src/block.rs), of the block store and of its     *)
(* inspector (tools/kura_inspector/src/main.rs), of the client's secret    *)
(* string (crates/iroha/src/secrecy.rs) and of the event consumer          *)
(* (cli/src/event.rs) of iroha.                                            *)
(*                                                                         *)
(* Spec           the SignaturesOf container driven by its operations      *)
(* SpecBlock      the decode path SignedBlockCandidate -> SignedBlock      *)
(* SpecSigned     sign, add_signature and replace_signatures on a block    *)
(* SpecEngine     Signature and SignatureOf under the four algorithms      *)
(* SpecStore      the block store: append in steps, crash, lock, readers   *)
(* SpecInspector  kura_inspector print on a store                          *)
(* SpecPayload    equality and order of two block payloads                 *)
(* SpecSecret     two secrets formatted, serialized and exposed            *)
(* SpecConsumer   stream_closed polling a stream of messages               *)
(***************************************************************************)
EXTENDS Integers, Sequences, FiniteSets, TLC

VARIABLES
    sigs,      \* SignaturesOf::signatures of the set under test, in B-tree order
    op,        \* the last operation applied to the set, with its arguments and result
    wire,      \* the encoded candidate block handed to SignedBlock::decode
    outcome,   \* what decode returned for wire
    prev,      \* the wire and outcome of the decode before the last re-encoding
    block,     \* the VersionedSignedBlock a peer holds: signatures and payload
    call,      \* the last method called on block, with its arguments and result
    eng,       \* the last signature made or rebuilt, and the last verification of it
    store,     \* the block store: data file, index file, lock and handles
    insp,      \* the run of kura_inspector: arguments, position, output
    pay,       \* the last two block payloads compared, with the results
    sec,       \* the last two secrets printed and serialized, with the outputs
    cons       \* the event consumer waiting for its stream to close

vars == <<sigs, op, wire, outcome, prev, block, call, eng, store, insp, pay, sec, cons>>

\* the variables each machine leaves alone
notSetVars == <<wire, outcome, prev, block, call, eng, store, insp, pay, sec, cons>>
notDecodeVars == <<sigs, op, block, call, eng, store, insp, pay, sec, cons>>
notSignedVars == <<sigs, op, wire, outcome, prev, eng, store, insp, pay, sec, cons>>
notEngineVars == <<sigs, op, wire, outcome, prev, block, call, store, insp, pay, sec, cons>>
notStoreVars == <<sigs, op, wire, outcome, prev, block, call, eng, insp, pay, sec, cons>>
notInspectorVars == <<sigs, op, wire, outcome, prev, block, call, eng, store, pay, sec, cons>>
notStoreInspectorVars == <<sigs, op, wire, outcome, prev, block, call, eng, pay, sec, cons>>
notPayloadVars == <<sigs, op, wire, outcome, prev, block, call, eng, store, insp, sec, cons>>
notSecretVars == <<sigs, op, wire, outcome, prev, block, call, eng, store, insp, pay, cons>>
notConsumerVars == <<sigs, op, wire, outcome, prev, block, call, eng, store, insp, pay, sec>>

---------------------------------------------------------------------------
(* Bounds *)

MaxKeys == 2
MaxValues == 2
MaxInput == 3
MaxTxs == 2
MaxSigs == 2
MaxBlocks == 2
MaxHandles == 2
Width == 4

Keys == 1..MaxKeys
Values == 1..MaxValues

---------------------------------------------------------------------------
(* Hash and the signature engine: collision-free digest, unforgeable       *)
(* signatures.  The bytes of a signature are the pair (signing key, signed *)
(* digest); they verify under a public key and a digest exactly when both  *)
(* match.                                                                  *)

\* Option: None is the empty tuple, Some(x) the tuple of x
None == <<>>
Some(x) == <<x>>

HashOf_new(value) == [digest_of |-> value]

KeyPair(k) == [public_key |-> k, private_key |-> k]

\* the four signature algorithms; the algorithm of a key is fixed by the key
Algorithms == <<"Ed25519", "Secp256k1", "BlsSmall", "BlsNormal">>
Algorithm(key) == Algorithms[((key - 1) % Len(Algorithms)) + 1]

\* a signature engine: its signatures verify under the scheme, the key and
\* the message they were made with, and under nothing else
Engine_sign(scheme, message, sk) ==
    [scheme |-> scheme, signer |-> sk, message |-> message]
Engine_verify(scheme, message, signature, pk) ==
    IF signature.scheme = scheme /\ signature.signer = pk /\ signature.message = message
    THEN "Ok" ELSE "BadSignature"

Ed25519Sha512_sign(message, sk) == Engine_sign("Ed25519", message, sk)
Ed25519Sha512_verify(message, signature, pk) == Engine_verify("Ed25519", message, signature, pk)
EcdsaSecp256k1Sha256_sign(message, sk) == Engine_sign("Secp256k1", message, sk)
EcdsaSecp256k1Sha256_verify(message, signature, pk) ==
    Engine_verify("Secp256k1", message, signature, pk)
BlsSmall_sign(message, sk) == Engine_sign("BlsSmall", message, sk)
BlsSmall_verify(message, signature, pk) == Engine_verify("BlsSmall", message, signature, pk)
BlsNormal_sign(message, sk) == Engine_sign("BlsNormal", message, sk)
BlsNormal_verify(message, signature, pk) == Engine_verify("BlsNormal", message, signature, pk)

\* the match on the private key in Signature::new
sign(private_key, message) ==
    LET algorithm == Algorithm(private_key) IN
    CASE algorithm = "Ed25519" -> Ed25519Sha512_sign(message, private_key)
      [] algorithm = "Secp256k1" ->
            EcdsaSecp256k1Sha256_sign(message, private_key)
      [] algorithm = "BlsSmall" -> BlsSmall_sign(message, private_key)
      [] algorithm = "BlsNormal" -> BlsNormal_sign(message, private_key)

\* a match that sends both kinds of BLS key to the BlsNormal engine
VerifyBlsAsNormal(public_key, message, bytes) ==
    LET algorithm == Algorithm(public_key) IN
    CASE algorithm = "Ed25519" -> Ed25519Sha512_verify(message, bytes, public_key)
      [] algorithm = "Secp256k1" ->
            EcdsaSecp256k1Sha256_verify(message, bytes, public_key)
      [] algorithm = "BlsSmall" -> BlsNormal_verify(message, bytes, public_key)
      [] algorithm = "BlsNormal" -> BlsNormal_verify(message, bytes, public_key)

\* the match on the public key in Signature::verify
engine_verify(public_key, message, bytes) ==
    LET algorithm == Algorithm(public_key) IN
    CASE algorithm = "Ed25519" -> Ed25519Sha512_verify(message, bytes, public_key)
      [] algorithm = "Secp256k1" ->
            EcdsaSecp256k1Sha256_verify(message, bytes, public_key)
      [] algorithm = "BlsSmall" -> BlsSmall_verify(message, bytes, public_key)
      [] algorithm = "BlsNormal" -> BlsNormal_verify(message, bytes, public_key)

\* Signature::new
Signature_new(key_pair, payload) ==
    [public_key |-> key_pair.public_key,
     payload |-> sign(key_pair.private_key, payload)]

\* Signature::from_bytes
Signature_from_bytes(public_key, payload) ==
    [public_key |-> public_key, payload |-> payload]

\* Signature::verify
Signature_verify(self, payload) ==
    engine_verify(self.public_key, payload, self.payload)

\* SignatureOf::from_hash
from_hash(key_pair, hash) == Signature_new(key_pair, hash)

\* SignatureOf::verify_hash
SignatureOf_verify_hash(self, hash) == Signature_verify(self, hash)

\* SignatureOf::new
SignatureOf_new(key_pair, value) == from_hash(key_pair, HashOf_new(value))

\* SignatureOf::verify
SignatureOf_verify(self, value) == SignatureOf_verify_hash(self, HashOf_new(value))

---------------------------------------------------------------------------
(* Orderings *)

\* Ord for PublicKey
PublicKey_cmp(a, b) == IF a < b THEN "Less" ELSE IF a = b THEN "Equal" ELSE "Greater"

\* Ord for SignatureWrapperOf: by public key alone
SignatureWrapperOf_cmp(a, b) == PublicKey_cmp(a.public_key, b.public_key)

\* PartialEq for SignatureWrapperOf
SignatureWrapperOf_eq(a, b) == a.public_key = b.public_key

\* Hash for PublicKey, and Hash for SignatureWrapperOf: the public key alone
PublicKey_hash(public_key) == [hashed |-> <<public_key>>]
SignatureWrapperOf_hash(a) == PublicKey_hash(a.public_key)

\* Ord for the bytes of a signature payload: the bytes of two signatures
\* differ when the signer or the signed digest differ, and compare as the
\* pair (signer, digest) does
u8_cmp(a, b) == IF a < b THEN "Less" ELSE IF a = b THEN "Equal" ELSE "Greater"
ConstVec_cmp(a, b) ==
    IF u8_cmp(a.signer, b.signer) # "Equal" THEN u8_cmp(a.signer, b.signer)
    ELSE u8_cmp(a.message.digest_of, b.message.digest_of)

\* derive(PartialEq, Ord, Hash) for Signature: public key, then payload
Signature_eq(a, b) == a.public_key = b.public_key /\ a.payload = b.payload
Signature_cmp(a, b) ==
    IF PublicKey_cmp(a.public_key, b.public_key) # "Equal"
    THEN PublicKey_cmp(a.public_key, b.public_key)
    ELSE ConstVec_cmp(a.payload, b.payload)
Signature_hash(a) == [hashed |-> <<a.public_key, a.payload>>]

\* an equality of typed signatures that looks at the signer alone
EqByPublicKey(a, b) == a.public_key = b.public_key

\* PartialEq, Ord and Hash for SignatureOf: those of the inner Signature
SignatureOf_eq(a, b) == Signature_eq(a, b)
SignatureOf_cmp(a, b) == Signature_cmp(a, b)
SignatureOf_hash(a) == Signature_hash(a)

---------------------------------------------------------------------------
(* BTreeSet<SignatureWrapperOf<T>>, kept as the sequence of its elements   *)
(* in iteration order.                                                     *)

BTreeSet_new == <<>>

BTreeSet_contains(set, x) ==
    \E i \in 1..Len(set) : SignatureWrapperOf_cmp(set[i], x) = "Equal"

InsertAlways(set, x) ==
    LET n == Cardinality({i \in 1..Len(set) :
                            SignatureWrapperOf_cmp(set[i], x) # "Greater"})
    IN  SubSeq(set, 1, n) \o <<x>> \o SubSeq(set, n + 1, Len(set))

\* BTreeSet::insert: an element that compares Equal is already there: the
\* entry is not updated
BTreeSet_insert(set, x) ==
    IF BTreeSet_contains(set, x) THEN set
    ELSE LET n == Cardinality({i \in 1..Len(set) :
                                 SignatureWrapperOf_cmp(set[i], x) = "Less"})
         IN  SubSeq(set, 1, n) \o <<x>> \o SubSeq(set, n + 1, Len(set))

\* Vec::sort: stable
\* a collection that leaves the elements in the order they came
KeepInputOrder(s) == s

RECURSIVE stable_sort(_)
stable_sort(s) ==
    IF s = <<>> THEN <<>>
    ELSE LET rest == stable_sort(Tail(s))
             x == Head(s)
             n == Cardinality({i \in 1..Len(rest) :
                                 SignatureWrapperOf_cmp(rest[i], x) = "Less"})
         IN  SubSeq(rest, 1, n) \o <<x>> \o SubSeq(rest, n + 1, Len(rest))

DedupKeepFirst(s) ==
    LET keep == {i \in 1..Len(s) :
                   i = 1 \/ ~SignatureWrapperOf_eq(s[i - 1], s[i])}
        RECURSIVE pick(_)
        pick(i) == IF i > Len(s) THEN <<>>
                   ELSE (IF i \in keep THEN <<s[i]>> ELSE <<>>) \o pick(i + 1)
    IN  pick(1)

\* DedupSortedIter: of a run of equal elements only the last is yielded
DedupSortedIter(s) ==
    LET keep == {i \in 1..Len(s) :
                   i = Len(s) \/ ~SignatureWrapperOf_eq(s[i], s[i + 1])}
        RECURSIVE pick(_)
        pick(i) == IF i > Len(s) THEN <<>>
                   ELSE (IF i \in keep THEN <<s[i]>> ELSE <<>>) \o pick(i + 1)
    IN  pick(1)

\* BTreeSet::from_iter: collect into a Vec, stable sort, bulk build from the
\* deduplicated sorted iterator
BTreeSet_from_iter(input) == DedupSortedIter(stable_sort(input))

BTreeSet_is_subset(self, other) ==
    /\ Len(self) <= Len(other)
    /\ \A i \in 1..Len(self) : BTreeSet_contains(other, self[i])

---------------------------------------------------------------------------
(* SignaturesOf *)

\* From<SignatureOf<A>> for SignaturesOf<A>
SignaturesOf_from(signature) == BTreeSet_insert(BTreeSet_new, signature)

\* SignaturesOf::new
SignaturesOf_new(key_pair, value) == SignaturesOf_from(SignatureOf_new(key_pair, value))

\* FromIterator for SignaturesOf
from_iter(signatures) == BTreeSet_from_iter(signatures)

\* SignaturesOf::insert
insert(self, signature) == BTreeSet_insert(self, signature)

\* Extend for SignaturesOf
RECURSIVE extend(_, _)
extend(self, iter) ==
    IF iter = <<>> THEN self
    ELSE extend(insert(self, Head(iter)), Tail(iter))

\* SignaturesOf::len
len(self) == Len(self)

\* SignaturesOf::iter and IntoIterator: the elements of the B-tree in order,
\* each without its wrapper
iter(self) == [i \in 1..Len(self) |-> self[i]]

VerifyHashLastFailure(self, hash) ==
    LET bad == {i \in 1..Len(self) : SignatureOf_verify_hash(self[i], hash) # "Ok"}
    IN  IF bad = {} THEN [ok |-> TRUE]
        ELSE LET i == CHOOSE j \in bad : \A l \in bad : l <= j
             IN  [ok |-> FALSE, signature |-> self[i],
                  reason |-> SignatureOf_verify_hash(self[i], hash)]

\* SignaturesOf::verify_hash: try_for_each over iter(), stops at the first Err
RECURSIVE SignaturesOf_verify_hash(_, _)
SignaturesOf_verify_hash(self, hash) ==
    IF self = <<>> THEN [ok |-> TRUE]
    ELSE LET r == SignatureOf_verify_hash(Head(self), hash)
         IN  IF r # "Ok"
             THEN [ok |-> FALSE, signature |-> Head(self), reason |-> r]
             ELSE SignaturesOf_verify_hash(Tail(self), hash)

\* SignaturesOf::verify
SignaturesOf_verify(self, item) == SignaturesOf_verify_hash(self, HashOf_new(item))

IsSubsetByPair(self, other) ==
    \A i \in 1..Len(self) : \E j \in 1..Len(other) : other[j] = self[i]

\* SignaturesOf::is_subset
is_subset(self, other) == BTreeSet_is_subset(self, other)

---------------------------------------------------------------------------
(* The signature set driven by its operations *)

\* every SignatureOf<u8> a key pair of Keys produces for a value of Values
Signatures == {SignatureOf_new(KeyPair(k), v) : k \in Keys, v \in Values}

RECURSIVE SeqsUpTo(_, _)
SeqsUpTo(S, n) ==
    IF n = 0 THEN {<<>>}
    ELSE LET shorter == SeqsUpTo(S, n - 1)
         IN  shorter \cup {Append(s, x) : s \in {t \in shorter : Len(t) = n - 1}, x \in S}

Inputs == SeqsUpTo(Signatures, MaxInput)

MalformedWire == [malformed |-> TRUE, signatures |-> <<>>, payload |-> <<>>]
NoOutcome == [state |-> "Unvalidated"]
NoPrev == [wire |-> MalformedWire, outcome |-> NoOutcome, change |-> "none"]

\* every SignaturesOf<u8> that collecting an iterator can build
Sets == {from_iter(input) : input \in Inputs}

Idle == [name |-> "idle"]

\* the machines at rest: nothing built, nothing called, nothing opened
SetAtRest == sigs = <<>> /\ op = Idle
DecodeAtRest == wire = MalformedWire /\ outcome = NoOutcome /\ prev = NoPrev
SignedAtRest == block = [held |-> FALSE] /\ call = Idle
EngineAtRest == eng = Idle
StoreAtRest == store = [opened |-> FALSE]
InspectorAtRest == insp = [pc |-> "not started"]
PayloadAtRest == pay = Idle
SecretAtRest == sec = Idle
ConsumerAtRest == cons = [pc |-> "not started"]

Init ==
    /\ PayloadAtRest
    /\ SecretAtRest
    /\ ConsumerAtRest
    /\ sigs = BTreeSet_new
    /\ op = Idle
    /\ DecodeAtRest
    /\ SignedAtRest
    /\ EngineAtRest
    /\ StoreAtRest
    /\ InspectorAtRest

\* SignaturesOf::new(key_pair, value)
New ==
    /\ op = Idle
    /\ \E k \in Keys, v \in Values :
        /\ sigs' = SignaturesOf_new(KeyPair(k), v)
        /\ op' = [name |-> "new", signature |-> SignatureOf_new(KeyPair(k), v)]
    /\ UNCHANGED notSetVars

\* self.insert(signature)
Insert ==
    /\ op = Idle
    /\ \E s \in Signatures :
        /\ sigs' = insert(sigs, s)
        /\ op' = [name |-> "insert", signature |-> s, before |-> sigs]
    /\ UNCHANGED notSetVars

\* self.extend(input)
Extend ==
    /\ op = Idle
    /\ \E input \in Inputs :
        /\ sigs' = extend(sigs, input)
        /\ op' = [name |-> "extend", input |-> input, before |-> sigs]
    /\ UNCHANGED notSetVars

\* input.into_iter().collect::<SignaturesOf<_>>()
Collect ==
    /\ op = Idle
    /\ \E input \in Inputs :
        /\ sigs' = from_iter(input)
        /\ op' = [name |-> "collect", input |-> input]
    /\ UNCHANGED notSetVars

\* self.verify_hash(hash)
VerifyHash ==
    /\ op = Idle
    /\ \E v \in Values :
        op' = [name |-> "verify_hash", hash |-> HashOf_new(v),
               result |-> SignaturesOf_verify_hash(sigs, HashOf_new(v))]
    /\ UNCHANGED <<sigs, notSetVars>>

\* self.is_subset(&other)
IsSubset ==
    /\ op = Idle
    /\ \E other \in Sets :
        op' = [name |-> "is_subset", other |-> other,
               result |-> is_subset(sigs, other)]
    /\ UNCHANGED <<sigs, notSetVars>>

\* the signatures handed to a comparison: those the key pairs produce, and
\* their bytes under each public key
Comparable ==
    {Signature_from_bytes(KeyPair(k).public_key, s.payload) : k \in Keys, s \in Signatures}

\* a == b, a.cmp(&b) and the hashes, as typed signatures and as set elements
Compare ==
    /\ op = Idle
    /\ \E a \in Comparable, b \in Comparable :
        op' = [name |-> "compare", a |-> a, b |-> b,
               eq |-> SignatureOf_eq(a, b),
               cmp |-> SignatureOf_cmp(a, b),
               same_hash |-> SignatureOf_hash(a) = SignatureOf_hash(b),
               wrapper_eq |-> SignatureWrapperOf_eq(a, b),
               wrapper_cmp |-> SignatureWrapperOf_cmp(a, b),
               wrapper_same_hash |->
                   SignatureWrapperOf_hash(a) = SignatureWrapperOf_hash(b),
               both |-> insert(SignaturesOf_from(a), b)]
    /\ UNCHANGED <<sigs, notSetVars>>

\* self.iter() run to its end
Iterate ==
    /\ op = Idle
    /\ op' = [name |-> "iter", items |-> iter(sigs)]
    /\ UNCHANGED <<sigs, notSetVars>>

\* the caller has looked at the result; the set is free for the next call
Return ==
    /\ op # Idle
    /\ op' = Idle
    /\ UNCHANGED <<sigs, notSetVars>>

Next ==
    \/ New \/ Insert \/ Extend \/ Collect \/ VerifyHash \/ IsSubset
    \/ Compare \/ Iterate \/ Return

Spec == Init /\ [][Next]_vars

---------------------------------------------------------------------------
(* Claims about the signature set *)

PublicKeysOf(set) == {set[i].public_key : i \in 1..Len(set)}

Unique(set) ==
    \A i, j \in 1..Len(set) : i # j => set[i].public_key # set[j].public_key

\* C1: after any sequence of new, insert, extend and collect no two elements of
\* a SignaturesOf set share a public key: len() is the number of distinct
\* public keys in the set.
C1_NoSharedPublicKey ==
    /\ Unique(sigs)
    /\ len(sigs) = Cardinality(PublicKeysOf(sigs))
    /\ op.name = "is_subset" => Unique(op.other)

\* an insert whose public key was already in the set has been done
C1_Witness ==
    /\ op.name = "insert"
    /\ op.signature.public_key \in PublicKeysOf(op.before)
    /\ len(sigs) = MaxKeys

\* C2: insert replaces: after inserting a signature the set holds that very
\* signature (the entry of its public key carries the new payload), and an
\* insert of a public key already present leaves the length unchanged.
C2_InsertReplaces ==
    op.name = "insert" =>
        /\ \E i \in 1..Len(sigs) : sigs[i] = op.signature
        /\ op.signature.public_key \in PublicKeysOf(op.before)
              => len(sigs) = len(op.before)

LastOf(input, k) ==
    input[CHOOSE i \in 1..Len(input) :
            /\ input[i].public_key = k
            /\ \A j \in 1..Len(input) : input[j].public_key = k => j <= i]

\* C3: collecting an iterator of signatures yields exactly one entry per
\* distinct public key of the input, and for each public key the entry is the
\* last signature of that key in input order.
C3_CollectKeepsLast ==
    op.name = "collect" =>
        /\ PublicKeysOf(sigs) = PublicKeysOf(op.input)
        /\ len(sigs) = Cardinality(PublicKeysOf(op.input))
        /\ \A i \in 1..Len(sigs) : sigs[i] = LastOf(op.input, sigs[i].public_key)

\* an input with two signatures of one signer, with different payloads, has
\* been collected
C3_Witness ==
    /\ op.name = "collect"
    /\ \E i, j \in 1..Len(op.input) :
        /\ i < j
        /\ op.input[i].public_key = op.input[j].public_key
        /\ op.input[i].payload # op.input[j].payload

\* C4 as claimed: is_subset is true exactly when every (public key, payload)
\* pair of self also appears in other.
C4_SubsetByPair ==
    op.name = "is_subset" => (op.result <=> IsSubsetByPair(sigs, op.other))

\* C4 amended: is_subset is true exactly when every public key of self also
\* appears in other, whatever the payloads.
C4_SubsetByPublicKey ==
    op.name = "is_subset" =>
        (op.result <=> PublicKeysOf(sigs) \subseteq PublicKeysOf(op.other))

\* is_subset returned true although other holds a different payload for a
\* public key of self
C4_Witness ==
    /\ op.name = "is_subset"
    /\ op.result
    /\ \E i \in 1..Len(sigs), j \in 1..Len(op.other) :
        /\ sigs[i].public_key = op.other[j].public_key
        /\ sigs[i].payload # op.other[j].payload

Invalid(set, hash) ==
    {i \in 1..Len(set) : SignatureOf_verify_hash(set[i], hash) # "Ok"}

\* C5: verify_hash returns Ok exactly when every member verifies against the
\* hash; otherwise the failure names the invalid member with the smallest
\* public key, with that member's verification error.
C5_VerifyHashFailFast ==
    op.name = "verify_hash" =>
        LET bad == Invalid(sigs, op.hash)
        IN  /\ op.result.ok <=> bad = {}
            /\ bad # {} =>
                /\ \E i \in bad : op.result.signature = sigs[i]
                /\ \A i \in bad :
                     op.result.signature.public_key <= sigs[i].public_key
                /\ op.result.reason =
                     SignatureOf_verify_hash(op.result.signature, op.hash)
                /\ op.result.reason # "Ok"

\* verify_hash has failed on a set with two invalid members
C5_Witness ==
    /\ op.name = "verify_hash"
    /\ ~op.result.ok
    /\ Cardinality(Invalid(sigs, op.hash)) >= 2

---------------------------------------------------------------------------
(* Block model: BlockPayload, the candidate validator and SignedBlock's    *)
(* Decode.  The build modelled is the one with feature "std", in which     *)
(* validate_signatures and validate_header are compiled in.                *)

\* TransactionValue: a transaction is the tuple of its content
TransactionValues == {<<t>> : t \in 1..MaxTxs}

\* TransactionValue::hash
TransactionValue_hash(tx) == HashOf_new(tx)

RECURSIVE MerkleLevel(_)
MerkleLevel(hashes) ==
    IF Len(hashes) <= 1 THEN hashes
    ELSE <<HashOf_new(<<hashes[1], hashes[2]>>)>>
           \o MerkleLevel(SubSeq(hashes, 3, Len(hashes)))

\* MerkleTree::from_iter(..).hash(): the root over the ordered leaves by
\* pairwise hashing, None for no leaves
RECURSIVE MerkleTree_hash(_)
MerkleTree_hash(hashes) ==
    IF hashes = <<>> THEN None
    ELSE IF Len(hashes) = 1 THEN Some(hashes[1])
    ELSE MerkleTree_hash(MerkleLevel(hashes))

BlockPayload(transactions_hash, transactions) ==
    [header |-> [transactions_hash |-> transactions_hash],
     transactions |-> transactions]

ERR_DECODE == "Could not decode SignedBlockCandidate"
ERR_SIGNATURES == "Transaction contains invalid signatures"
ERR_HASH == "Transactions' hash incorrect. Expected: {expected_txs_hash:?}, actual: {actual_txs_hash:?}"
ERR_EMPTY == "Block is empty"

Ok == [ok |-> TRUE]
Err(reason) == [ok |-> FALSE, reason |-> reason]

ValidateSignaturesFirstOnly(self) ==
    IF self.signatures = <<>>
         \/ SignatureOf_verify(self.signatures[1], self.payload) = "Ok"
    THEN Ok ELSE Err(ERR_SIGNATURES)

\* validate_signatures that checks the signatures against the header alone
ValidateSignaturesOverHeader(self) ==
    IF SignaturesOf_verify(self.signatures, self.payload.header).ok
    THEN Ok ELSE Err(ERR_SIGNATURES)

\* SignedBlockCandidate::validate_signatures
validate_signatures(self) ==
    IF SignaturesOf_verify(self.signatures, self.payload).ok
    THEN Ok ELSE Err(ERR_SIGNATURES)

ValidateHeaderPresenceOnly(self) ==
    IF (self.payload.header.transactions_hash = None)
         # (self.payload.transactions = <<>>)
    THEN Err(ERR_HASH) ELSE Ok

\* SignedBlockCandidate::validate_header
validate_header(self) ==
    LET actual_txs_hash == self.payload.header.transactions_hash
        expected_txs_hash ==
            MerkleTree_hash([i \in 1..Len(self.payload.transactions) |->
                               TransactionValue_hash(self.payload.transactions[i])])
    IN  IF expected_txs_hash # actual_txs_hash THEN Err(ERR_HASH) ELSE Ok

SignedBlock(self) ==
    [ok |-> TRUE, block |-> [signatures |-> self.signatures, payload |-> self.payload]]

\* the build without feature "std": only the emptiness check is compiled in
ValidateNoStd(self) ==
    IF self.payload.transactions = <<>> THEN Err(ERR_EMPTY) ELSE SignedBlock(self)

ValidateEmptyFirst(self) ==
    IF self.payload.transactions = <<>> THEN Err(ERR_EMPTY)
    ELSE IF ~validate_header(self).ok THEN validate_header(self)
    ELSE IF ~validate_signatures(self).ok THEN validate_signatures(self)
    ELSE SignedBlock(self)

ValidateNoEmptyCheck(self) ==
    IF ~validate_signatures(self).ok THEN validate_signatures(self)
    ELSE IF ~validate_header(self).ok THEN validate_header(self)
    ELSE SignedBlock(self)

\* SignedBlockCandidate::validate
validate(self) ==
    IF ~validate_signatures(self).ok THEN validate_signatures(self)
    ELSE IF ~validate_header(self).ok THEN validate_header(self)
    ELSE IF self.payload.transactions = <<>> THEN Err(ERR_EMPTY)
    ELSE SignedBlock(self)

\* derive(Decode) for SignedBlockCandidate: the signatures are read as a
\* sequence and collected into the set
SignedBlockCandidate_decode(input) ==
    IF input.malformed THEN Err(ERR_DECODE)
    ELSE [ok |-> TRUE,
          candidate |-> [signatures |-> from_iter(input.signatures),
                         payload |-> input.payload]]

\* Decode for SignedBlock
SignedBlock_decode(input) ==
    LET c == SignedBlockCandidate_decode(input)
    IN  IF ~c.ok THEN c ELSE validate(c.candidate)

\* Encode for a candidate with the given signature set
encode(signatures, payload) ==
    [malformed |-> FALSE, signatures |-> signatures, payload |-> payload]

---------------------------------------------------------------------------
(* The decode path driven by candidate blocks *)

TxSeqs == SeqsUpTo(TransactionValues, MaxTxs)

HashesOf(txs) == [i \in 1..Len(txs) |-> TransactionValue_hash(txs[i])]

\* the header's transactions_hash: absent, the root of the transactions, or
\* the root of another list of transactions
HeaderHashes(txs) ==
    {None, MerkleTree_hash(HashesOf(txs)), MerkleTree_hash(HashesOf(<<<<1>>>> \o txs))}

PayloadsOf(txs) == {BlockPayload(h, txs) : h \in HeaderHashes(txs)}

NextKey(k) == (k % MaxKeys) + 1

\* the same transactions under a header no honest peer produced
OtherPayload(payload) ==
    BlockPayload(Some(HashOf_new(<<0>>)), payload.transactions)

\* the signatures peers may send with a payload under public key k: the
\* signature of the payload, one made with another peer's private key, and
\* one made over another payload
SignatureChoices(payload) ==
    UNION {{SignatureOf_new(KeyPair(k), payload),
            [public_key |-> k,
             payload |-> sign(KeyPair(NextKey(k)).private_key, HashOf_new(payload))],
            SignatureOf_new(KeyPair(k), OtherPayload(payload))}
           : k \in Keys}

\* the candidates a peer may send: undecodable bytes, or the encoding of a
\* payload with up to MaxSigs signatures
IsWire(w) ==
    \/ w = MalformedWire
    \/ \E txs \in TxSeqs : \E p \in PayloadsOf(txs) :
         \E ss \in SeqsUpTo(SignatureChoices(p), MaxSigs) : w = encode(ss, p)

Decoded == outcome.state # "Unvalidated"

InitBlock ==
    /\ PayloadAtRest
    /\ SecretAtRest
    /\ ConsumerAtRest
    /\ SetAtRest
    /\ IsWire(wire)
    /\ outcome = NoOutcome
    /\ prev = NoPrev
    /\ SignedAtRest
    /\ EngineAtRest
    /\ StoreAtRest
    /\ InspectorAtRest

\* SignedBlock::decode(wire)
Decode ==
    /\ ~Decoded
    /\ LET r == SignedBlock_decode(wire)
       IN  outcome' = IF r.ok THEN [state |-> "SignedBlock", block |-> r.block]
                      ELSE [state |-> "Rejected", reason |-> r.reason]
    /\ UNCHANGED <<wire, prev, notDecodeVars>>

\* a peer drops one signature of the decoded set and sends the block again
RemoveSignature ==
    /\ Decoded
    /\ ~wire.malformed
    /\ LET set == from_iter(wire.signatures)
       IN  \E i \in 1..Len(set) :
            /\ wire' = encode(SubSeq(set, 1, i - 1) \o SubSeq(set, i + 1, Len(set)),
                              wire.payload)
            /\ prev' = [wire |-> wire, outcome |-> outcome,
                        change |-> "remove_signature", removed |-> set[i]]
    /\ outcome' = NoOutcome
    /\ UNCHANGED notDecodeVars

\* a peer changes one transaction of an accepted block, keeps the header and
\* the signatures, and sends the block again
TamperTransaction ==
    /\ outcome.state = "SignedBlock"
    /\ \E i \in 1..Len(wire.payload.transactions) :
        \E tx \in TransactionValues \ {wire.payload.transactions[i]} :
            wire' = [wire EXCEPT !.payload.transactions[i] = tx]
    /\ prev' = [wire |-> wire, outcome |-> outcome, change |-> "tamper"]
    /\ outcome' = NoOutcome
    /\ UNCHANGED notDecodeVars

NextBlock == Decode \/ RemoveSignature \/ TamperTransaction

SpecBlock == InitBlock /\ [][NextBlock]_vars

---------------------------------------------------------------------------
(* Claims about the decode path *)

\* the signature set the structural decode builds from the wire
DecodedSignatures(w) == from_iter(w.signatures)

Verifies(signature, payload) == SignatureOf_verify(signature, payload) = "Ok"

AllSignaturesValid(w) ==
    \A i \in 1..Len(DecodedSignatures(w)) :
        Verifies(DecodedSignatures(w)[i], w.payload)

HashMatches(w) ==
    w.payload.header.transactions_hash = MerkleTree_hash(HashesOf(w.payload.transactions))

NonEmpty(w) == w.payload.transactions # <<>>

Accepted == outcome.state = "SignedBlock"
Rejected == outcome.state = "Rejected"
RejectedWith(reason) == Rejected /\ outcome.reason = reason

\* C6: decode is total with two outcomes: every candidate can be decoded, the
\* result is either a SignedBlock or a rejection carrying a reason, and a
\* SignedBlock comes out only when the bytes decoded and all validator checks
\* passed; the block is then the candidate's signature set and payload.
C6_DecodeTotalTwoOutcomes ==
    /\ ~Decoded =>
        LET r == SignedBlock_decode(wire)
        IN  IF r.ok THEN DOMAIN r = {"ok", "block"}
            ELSE DOMAIN r = {"ok", "reason"}
    /\ Decoded => (Accepted /\ ~Rejected) \/ (Rejected /\ ~Accepted)
    /\ Rejected => outcome.reason \in {ERR_DECODE, ERR_SIGNATURES, ERR_HASH, ERR_EMPTY}
    /\ Accepted =>
        /\ ~wire.malformed
        /\ NonEmpty(wire)
        /\ HashMatches(wire)
        /\ AllSignaturesValid(wire)
        /\ outcome.block = [signatures |-> DecodedSignatures(wire),
                            payload |-> wire.payload]

\* a candidate with two signers has been accepted
C6_Witness ==
    /\ Accepted
    /\ Len(outcome.block.signatures) >= 2

ReasonInOrder(w, checks) ==
    LET failing == {i \in 1..Len(checks) : ~checks[i].pass}
    IN  IF failing = {} THEN "none"
        ELSE checks[CHOOSE i \in failing : \A j \in failing : i <= j].reason

DecodeCheck(w) == [pass |-> ~w.malformed, reason |-> ERR_DECODE]
EmptyCheck(w) == [pass |-> w.malformed \/ NonEmpty(w), reason |-> ERR_EMPTY]
HashCheck(w) == [pass |-> w.malformed \/ HashMatches(w), reason |-> ERR_HASH]
SignaturesCheck(w) ==
    [pass |-> w.malformed \/ AllSignaturesValid(w), reason |-> ERR_SIGNATURES]

OutcomeFollows(reason) ==
    IF reason = "none" THEN Accepted ELSE RejectedWith(reason)

C8_SignatureIntegrity ==
    /\ (Decoded /\ ~wire.malformed /\ ~AllSignaturesValid(wire)) => Rejected
    /\ (/\ prev.change = "remove_signature"
        /\ Decoded
        /\ ~Verifies(prev.removed, wire.payload)
        /\ NonEmpty(wire) /\ HashMatches(wire)
        /\ AllSignaturesValid(wire))
       => /\ prev.outcome.state = "Rejected"
          /\ Accepted
          /\ Len(outcome.block.signatures) = Len(DecodedSignatures(prev.wire)) - 1

\* a block rejected for one invalid signature has been accepted with that
\* signature removed and one signer left
C8_Witness ==
    /\ prev.change = "remove_signature"
    /\ ~Verifies(prev.removed, wire.payload)
    /\ prev.outcome.state = "Rejected"
    /\ Accepted
    /\ Len(outcome.block.signatures) >= 1

C10_EmptyBlockRejected ==
    (Decoded /\ ~wire.malformed /\ ~NonEmpty(wire)) => Rejected

\* an empty block with transactions_hash None and two valid signatures has
\* been rejected as empty
C10_Witness ==
    /\ ~wire.malformed
    /\ ~NonEmpty(wire)
    /\ wire.payload.header.transactions_hash = None
    /\ Len(DecodedSignatures(wire)) >= 2
    /\ AllSignaturesValid(wire)
    /\ RejectedWith(ERR_EMPTY)

---------------------------------------------------------------------------
(* The block a peer holds: VersionedSignedBlock and its signature methods *)

\* VersionedSignedBlock::sign
VersionedSignedBlock_sign(self, key_pair) ==
    [self EXCEPT !.signatures = insert(@, SignatureOf_new(key_pair, self.payload))]

\* add_signature without the verification
AddUnverified(self, signature) ==
    [ok |-> TRUE, block |-> [self EXCEPT !.signatures = insert(@, signature)]]

\* VersionedSignedBlock::add_signature
add_signature(self, signature) ==
    IF SignatureOf_verify(signature, self.payload) # "Ok"
    THEN [ok |-> FALSE, block |-> self]
    ELSE [ok |-> TRUE, block |-> [self EXCEPT !.signatures = insert(@, signature)]]

\* the for loop of replace_signatures: stops at the first signature that
\* add_signature refuses
RECURSIVE AddEach(_, _)
AddEach(self, signatures) ==
    IF signatures = <<>> THEN [result |-> TRUE, block |-> self]
    ELSE LET r == add_signature(self, Head(signatures))
         IN  IF ~r.ok THEN [result |-> FALSE, block |-> self]
             ELSE AddEach(r.block, Tail(signatures))

\* replace_signatures that adds to the set the block already has
ReplaceWithoutClearing(self, signatures) == AddEach(self, signatures)

\* VersionedSignedBlock::replace_signatures
replace_signatures(self, signatures) ==
    AddEach([self EXCEPT !.signatures = BTreeSet_new], signatures)

\* the block starts as one that decode accepted
InitSigned ==
    /\ PayloadAtRest
    /\ SecretAtRest
    /\ ConsumerAtRest
    /\ SetAtRest
    /\ DecodeAtRest
    /\ \E txs \in TxSeqs : \E p \in PayloadsOf(txs) :
         \E ss \in SeqsUpTo(SignatureChoices(p), MaxSigs) :
            LET r == SignedBlock_decode(encode(ss, p))
            IN  r.ok /\ block = r.block
    /\ call = Idle
    /\ EngineAtRest
    /\ StoreAtRest
    /\ InspectorAtRest

\* block.sign(key_pair)
Sign ==
    /\ call = Idle
    /\ \E k \in Keys :
        /\ block' = VersionedSignedBlock_sign(block, KeyPair(k))
        /\ call' = [name |-> "sign", key_pair |-> KeyPair(k), before |-> block]
    /\ UNCHANGED notSignedVars

\* the signature a key pair makes over the same value from another seed:
\* other bytes, which the engine accepts as it accepts the first
SignatureOf_reseeded(key_pair, value) ==
    LET s == SignatureOf_new(key_pair, value)
    IN  [public_key |-> s.public_key,
         payload |-> [scheme |-> s.payload.scheme, signer |-> s.payload.signer,
                      message |-> s.payload.message, seed |-> 1]]

\* the signatures a peer may receive for its block
ReceivedSignatures(payload) ==
    SignatureChoices(payload)
        \cup {SignatureOf_reseeded(KeyPair(k), payload) : k \in Keys}

\* block.add_signature(signature)
AddSignature ==
    /\ call = Idle
    /\ \E s \in ReceivedSignatures(block.payload) :
        LET r == add_signature(block, s)
        IN  /\ block' = r.block
            /\ call' = [name |-> "add_signature", signature |-> s,
                        before |-> block, result |-> r.ok]
    /\ UNCHANGED notSignedVars

\* block.replace_signatures(signatures)
ReplaceSignatures ==
    /\ call = Idle
    /\ \E ss \in SeqsUpTo(SignatureChoices(block.payload), MaxSigs) :
        LET r == replace_signatures(block, from_iter(ss))
        IN  /\ block' = r.block
            /\ call' = [name |-> "replace_signatures", signatures |-> from_iter(ss),
                        before |-> block, result |-> r.result]
    /\ UNCHANGED notSignedVars

\* SignedBlock::decode(block.encode())
EncodeDecode ==
    /\ call = Idle
    /\ call' = [name |-> "encode_decode",
                result |-> SignedBlock_decode(encode(block.signatures, block.payload))]
    /\ UNCHANGED <<block, notSignedVars>>

\* the caller has looked at the result
ReturnSigned ==
    /\ call # Idle
    /\ call' = Idle
    /\ UNCHANGED <<block, notSignedVars>>

NextSigned == Sign \/ AddSignature \/ ReplaceSignatures \/ EncodeDecode \/ ReturnSigned

SpecSigned == InitSigned /\ [][NextSigned]_vars

---------------------------------------------------------------------------
(* Claims about the signature methods of a block *)

Replaced == call.name = "replace_signatures"

\* every signature of the set verifies against the payload
AllVerify(signatures, payload) ==
    \A i \in 1..Len(signatures) : SignatureOf_verify(signatures[i], payload) = "Ok"

\* C11: when a signature of the incoming set fails verification against the
\* block's payload, replace_signatures returns false and the block's
\* signature set is what it was before the call.
C11_ReplaceAtomicOnFailure ==
    (Replaced /\ ~AllVerify(call.signatures, call.before.payload)) =>
        /\ call.result = FALSE
        /\ block.signatures = call.before.signatures

C13_EncodeDecodeRoundTrip ==
    call.name = "encode_decode" =>
        /\ call.result.ok
        /\ call.result.block = block

\* a block with two signatures and two transactions went through the round trip
C13_Witness ==
    /\ call.name = "encode_decode"
    /\ Len(block.signatures) >= 2
    /\ Len(block.payload.transactions) >= 2
    /\ call.result.ok

---------------------------------------------------------------------------
(* Signing and verifying with a key pair of each algorithm *)

\* one key pair per algorithm
EngineKeys == 1..Len(Algorithms)

InitEngine ==
    /\ PayloadAtRest
    /\ SecretAtRest
    /\ ConsumerAtRest
    /\ SetAtRest
    /\ DecodeAtRest
    /\ SignedAtRest
    /\ eng = Idle
    /\ StoreAtRest
    /\ InspectorAtRest

\* Signature::new(key_pair, message) or SignatureOf::new(key_pair, value)
MakeSignature ==
    /\ eng = Idle
    /\ \E k \in EngineKeys, v \in Values, typed \in BOOLEAN :
        eng' = [name |-> "signed", typed |-> typed, key_pair |-> KeyPair(k),
                value |-> v, rebuilt |-> FALSE,
                signature |-> IF typed THEN SignatureOf_new(KeyPair(k), v)
                              ELSE Signature_new(KeyPair(k), v)]
    /\ UNCHANGED notEngineVars

\* Signature::from_bytes(public_key, signature.payload()): the bytes of the
\* signature under a public key of the caller's choice
FromBytes ==
    /\ eng # Idle
    /\ eng.name = "signed"
    /\ \E k \in EngineKeys :
        eng' = [eng EXCEPT !.name = "from_bytes",
                           !.rebuilt = (KeyPair(k).public_key # eng.key_pair.public_key),
                           !.signature = Signature_from_bytes(KeyPair(k).public_key,
                                                              eng.signature.payload)]
    /\ UNCHANGED notEngineVars

\* signature.verify(message) or signature.verify(value)
Verify ==
    /\ eng # Idle
    /\ eng.name \in {"signed", "from_bytes"}
    /\ \E v \in Values :
        eng' = [name |-> "verified", typed |-> eng.typed, key_pair |-> eng.key_pair,
                value |-> eng.value, rebuilt |-> eng.rebuilt,
                signature |-> eng.signature, against |-> v,
                result |-> IF eng.typed THEN SignatureOf_verify(eng.signature, v)
                           ELSE Signature_verify(eng.signature, v)]
    /\ UNCHANGED notEngineVars

\* the signature is dropped
ReturnEngine ==
    /\ eng # Idle
    /\ eng' = Idle
    /\ UNCHANGED notEngineVars

NextEngine == MakeSignature \/ FromBytes \/ Verify \/ ReturnEngine

SpecEngine == InitEngine /\ [][NextEngine]_vars

\* C14: for a key pair of each of the four algorithms the signature made by
\* signing v carries the key pair's public key and verifies against v; a
\* SignatureOf signs the hash of the value, so it verifies against v' only
\* when v' has the hash of v.
C14_SignVerifyRoundTrip ==
    /\ (eng # Idle /\ eng.name = "signed") =>
          eng.signature.public_key = eng.key_pair.public_key
    /\ (eng # Idle /\ eng.name = "verified" /\ ~eng.rebuilt) =>
          /\ eng.against = eng.value => eng.result = "Ok"
          /\ (eng.typed /\ HashOf_new(eng.against) # HashOf_new(eng.value)) =>
                eng.result # "Ok"
          /\ eng.signature.payload.message =
                IF eng.typed THEN HashOf_new(eng.value) ELSE eng.value

\* a typed signature made with a BlsSmall key verified against its value
C14_Witness ==
    /\ eng # Idle
    /\ eng.name = "verified"
    /\ ~eng.rebuilt
    /\ eng.typed
    /\ Algorithm(eng.key_pair.private_key) = "BlsSmall"
    /\ eng.against = eng.value
    /\ eng.result = "Ok"

---------------------------------------------------------------------------
(* The block store: a data file and an index file, each with the content   *)
(* processes see (written) and the content that survives a crash (flushed) *)

Handles == 1..MaxHandles

\* the encoded blocks a node appends
EncodedBlocks == {<<1>>, <<2, 2>>, <<3, 4>>}

NotAppending == [pc |-> "idle"]
NothingRead == [height |-> 0]

\* blocks.data and blocks.index of a new store, no handle open
EmptyStore ==
    [data |-> <<>>, disk_data |-> <<>>,
     index |-> <<>>, disk_index |-> <<>>,
     lock |-> 0,
     handles |-> [h \in Handles |-> "closed"],
     app |-> [h \in Handles |-> NotAppending],
     committed |-> <<>>,
     seen |-> 0,
     got |-> NothingRead]

\* the end of the data the index addresses
index_end(index) ==
    IF index = <<>> THEN 0 ELSE index[Len(index)].start + index[Len(index)].length

\* a write that does not seek: the bytes go to the start of the file
WriteAtStart(file, offset, bytes) ==
    bytes \o SubSeq(file, Len(bytes) + 1, Len(file))

\* the file after writing bytes at offset
write_at(file, offset, bytes) ==
    SubSeq(file, 1, offset) \o bytes \o SubSeq(file, offset + Len(bytes) + 1, Len(file))

\* an open that takes the lock whoever holds it
OpenIgnoringLock(s, h, lock_mode) ==
    [ok |-> TRUE,
     store |-> [s EXCEPT !.handles[h] = lock_mode,
                         !.lock = IF lock_mode = "Locked" THEN h ELSE @]]

\* BlockStore::new(path, lock_mode): Locked takes the lock of the one
\* writer and fails when another handle holds it; Unlocked opens for reading
open(s, h, lock_mode) ==
    IF lock_mode = "Locked" /\ s.lock # 0
    THEN [ok |-> FALSE, store |-> s]
    ELSE [ok |-> TRUE,
          store |-> [s EXCEPT !.handles[h] = lock_mode,
                              !.lock = IF lock_mode = "Locked" THEN h ELSE @]]

\* BlockStore::read_index_count: the entries flushed to the index file
read_index_count(s) == Len(s.disk_index)

\* BlockStore::read_block_indices(from_height, buffer of n entries)
read_block_indices(s, from_height, n) ==
    IF from_height + n > read_index_count(s) THEN [ok |-> FALSE]
    ELSE [ok |-> TRUE, entries |-> SubSeq(s.disk_index, from_height + 1, from_height + n)]

\* BlockStore::read_block_data(offset, buffer of length bytes)
read_block_data(s, offset, length) ==
    IF offset + length > Len(s.data) THEN [ok |-> FALSE]
    ELSE [ok |-> TRUE, bytes |-> SubSeq(s.data, offset + 1, offset + length)]

\* an offset that is the start of the last block, not its end
StartOfLastEntry(s) ==
    IF s.index = <<>> THEN 0 ELSE s.index[Len(s.index)].start

\* where append writes the bytes of the next block
append_offset(s) == index_end(s.index)

\* an append that writes and flushes the index entry before it flushes the data
StepIndexBeforeFlush(pc) ==
    CASE pc = "write_data" -> "write_index"
      [] pc = "write_index" -> "flush_index"
      [] pc = "flush_index" -> "flush_data"
      [] pc = "flush_data" -> "idle"

\* the steps of append in order: write the data, flush it, write the index
\* entry, flush it
next_step(pc) ==
    CASE pc = "write_data" -> "flush_data"
      [] pc = "flush_data" -> "write_index"
      [] pc = "write_index" -> "flush_index"
      [] pc = "flush_index" -> "idle"

\* the append of handle h moves past step pc; after its last step the block
\* is committed and append returns
step_done(s, h, pc) ==
    IF next_step(pc) = "idle"
    THEN [s EXCEPT !.app[h] = NotAppending,
                   !.committed = Append(@, s.app[h].block)]
    ELSE [s EXCEPT !.app[h].pc = next_step(pc)]

InitStore ==
    /\ PayloadAtRest
    /\ SecretAtRest
    /\ ConsumerAtRest
    /\ SetAtRest
    /\ DecodeAtRest
    /\ SignedAtRest
    /\ EngineAtRest
    /\ store = EmptyStore
    /\ InspectorAtRest

\* a process opens the store
Open ==
    /\ \E h \in Handles, lock_mode \in {"Locked", "Unlocked"} :
        /\ store.handles[h] = "closed"
        /\ open(store, h, lock_mode).ok
        /\ store' = open(store, h, lock_mode).store
    /\ UNCHANGED notStoreVars

\* a process closes its handle; the writer's lock goes with it
Close ==
    /\ \E h \in Handles :
        /\ store.handles[h] # "closed"
        /\ store.app[h] = NotAppending
        /\ store' = [store EXCEPT !.handles[h] = "closed",
                                  !.lock = IF @ = h THEN 0 ELSE @]
    /\ UNCHANGED notStoreVars

\* append(block), first step: the bytes are written to the data file
AppendWriteData ==
    /\ \E h \in Handles, b \in EncodedBlocks :
        /\ store.handles[h] = "Locked"
        /\ store.app[h] = NotAppending
        /\ Len(store.index) < MaxBlocks
        /\ LET start == append_offset(store)
               written == [store EXCEPT
                              !.data = write_at(@, start, b),
                              !.app[h] = [pc |-> "write_data", block |-> b,
                                          entry |-> [start |-> start, length |-> Len(b)]]]
           IN  store' = step_done(written, h, "write_data")
    /\ UNCHANGED notStoreVars

\* append: the data file is flushed
AppendFlushData ==
    /\ \E h \in Handles :
        /\ store.app[h].pc = "flush_data"
        /\ store' = step_done([store EXCEPT !.disk_data = store.data], h, "flush_data")
    /\ UNCHANGED notStoreVars

\* append: the index entry is written to the index file
AppendWriteIndex ==
    /\ \E h \in Handles :
        /\ store.app[h].pc = "write_index"
        /\ store' = step_done([store EXCEPT !.index = Append(@, store.app[h].entry)],
                              h, "write_index")
    /\ UNCHANGED notStoreVars

\* append: the index file is flushed
AppendFlushIndex ==
    /\ \E h \in Handles :
        /\ store.app[h].pc = "flush_index"
        /\ store' = step_done([store EXCEPT !.disk_index = store.index], h, "flush_index")
    /\ UNCHANGED notStoreVars

\* the machine stops: what was not flushed is lost, every process is gone
Crash ==
    /\ store' = [store EXCEPT !.data = store.disk_data,
                              !.index = store.disk_index,
                              !.lock = 0,
                              !.handles = [h \in Handles |-> "closed"],
                              !.app = [h \in Handles |-> NotAppending],
                              !.seen = 0,
                              !.got = NothingRead]
    /\ UNCHANGED notStoreVars

\* a reader asks for index_count()
ReadIndexCount ==
    /\ \E h \in Handles :
        /\ store.handles[h] # "closed"
        /\ store.app[h] = NotAppending
        /\ store' = [store EXCEPT !.seen = read_index_count(store), !.got = NothingRead]
    /\ UNCHANGED notStoreVars

\* a reader reads one of the entries it has counted, then the bytes the
\* entry addresses
ReadBlock ==
    /\ \E h \in Handles, height \in 1..store.seen :
        /\ store.handles[h] # "closed"
        /\ store.app[h] = NotAppending
        /\ LET indices == read_block_indices(store, height - 1, 1)
               bytes == IF indices.ok
                        THEN read_block_data(store, indices.entries[1].start,
                                             indices.entries[1].length)
                        ELSE [ok |-> FALSE]
           IN  store' = [store EXCEPT !.got =
                            [height |-> height, indices |-> indices, data |-> bytes,
                             count |-> read_index_count(store),
                             during |-> {store.app[w].pc : w \in Handles}]]
    /\ UNCHANGED notStoreVars

NextStore ==
    \/ Open \/ Close
    \/ AppendWriteData \/ AppendFlushData \/ AppendWriteIndex \/ AppendFlushIndex
    \/ Crash
    \/ ReadIndexCount \/ ReadBlock

SpecStore == InitStore /\ [][NextStore]_vars

---------------------------------------------------------------------------
(* Claims about the block store *)

Appending(s) == {h \in Handles : s.app[h] # NotAppending}

\* C15: in every state, between any two steps of an append and after a
\* crash, every entry in the index file addresses bytes that are within the
\* flushed data file.
C15_IndexWithinFlushedData ==
    \A i \in 1..Len(store.index) :
        store.index[i].start + store.index[i].length <= Len(store.disk_data)

\* a reader read the first block while the entry of the second was written
\* and not yet flushed
C15_Witness ==
    /\ Len(store.index) = 2
    /\ Len(store.disk_index) = 1
    /\ store.got.height = 1
    /\ "flush_index" \in store.got.during

\* the bytes entry i of the flushed index addresses
BlockBytes(s, i) ==
    read_block_data(s, s.disk_index[i].start, s.disk_index[i].length)

\* C16: index_count() never decreases and an index entry, with the bytes it
\* addresses, never changes once it is there; a reader that counted n
\* entries reads each of them at any later time, appends in between or not.
C16_AppendOnly ==
    [][/\ read_index_count(store') >= read_index_count(store)
       /\ \A i \in 1..read_index_count(store) :
            /\ store'.disk_index[i] = store.disk_index[i]
            /\ BlockBytes(store', i) = BlockBytes(store, i)
            /\ BlockBytes(store', i).ok
       /\ store'.seen <= read_index_count(store')
       /\ store'.got.height # 0 => (store'.got.indices.ok /\ store'.got.data.ok)]_vars

\* a reader counted one entry, a second block was appended, and the reader
\* then read the first
C16_Witness ==
    /\ store.seen = 1
    /\ store.got.height = 1
    /\ store.got.count = 2
    /\ store.got.data.ok
    /\ store.got.data.bytes = store.committed[1]

\* C17: at most one handle is able to append, the one that holds the lock;
\* no two appends are in progress together; handles opened for reading read
\* while an append is in progress.
C17_SingleWriter ==
    /\ Cardinality({h \in Handles : store.handles[h] = "Locked"}) <= 1
    /\ Cardinality(Appending(store)) <= 1
    /\ \A h \in Handles : store.handles[h] = "Locked" => store.lock = h
    /\ \A h \in Appending(store) : store.handles[h] = "Locked"

\* a second writer was kept out: a handle holds the lock and is in the
\* middle of an append while another handle, open for reading, has read
C17_Witness ==
    /\ \E w \in Handles :
        /\ store.lock = w
        /\ store.app[w].pc = "write_index"
        /\ ~open(store, (w % MaxHandles) + 1, "Locked").ok
    /\ \E h \in Handles : store.handles[h] = "Unlocked"
    /\ store.got.height # 0
    /\ "write_index" \in store.got.during

RECURSIVE SumOfLengths(_, _)
SumOfLengths(blocks, n) ==
    IF n = 0 THEN 0 ELSE SumOfLengths(blocks, n - 1) + Len(blocks[n])

\* C18: after blocks b1..bn were appended to an empty store, index entry
\* k-1 is {start: the sum of the lengths of b1..b(k-1), length: the length
\* of bk}, and reading that range of the data file returns bk.
C18_AppendReadRoundTrip ==
    /\ read_index_count(store) = Len(store.committed)
    /\ \A k \in 1..Len(store.committed) :
        /\ read_block_indices(store, k - 1, 1) =
              [ok |-> TRUE,
               entries |-> <<[start |-> SumOfLengths(store.committed, k - 1),
                              length |-> Len(store.committed[k])]>>]
        /\ BlockBytes(store, k) = [ok |-> TRUE, bytes |-> store.committed[k]]

\* two blocks of different lengths were appended, the second after a crash
\* left the bytes of an unfinished append in the data file
C18_Witness ==
    /\ Len(store.committed) = 2
    /\ Len(store.committed[1]) # Len(store.committed[2])
    /\ Len(store.data) > index_end(store.index)

---------------------------------------------------------------------------
(* kura_inspector: print the blocks of a store.  u64 is an unsigned        *)
(* integer of Width bits.                                                  *)

U64 == 0..(2^Width - 1)
U64_MAX == 2^Width - 1

\* u64 addition as the build compiles it: with overflow checks a sum out of
\* range panics, without them it wraps
wrapping_add(a, b) == (a + b) % (2^Width)
overflows(a, b) == a + b > U64_MAX

\* the largest vec of BlockIndex (two u64) the allocator accepts: its size
\* in words must not exceed isize::MAX
vec_capacity == (2^(Width - 1) - 1) \div 2

\* append(block) from its first step to its last, nothing in between
append(s, b) ==
    LET start == append_offset(s)
        data == write_at(s.data, start, b)
        index == Append(s.index, [start |-> start, length |-> Len(b)])
    IN  [s EXCEPT !.data = data, !.disk_data = data,
                  !.index = index, !.disk_index = index,
                  !.committed = Append(@, b)]

\* the store after the blocks were appended to an empty store
RECURSIVE StoreOf(_)
StoreOf(blocks) ==
    IF blocks = <<>> THEN EmptyStore
    ELSE append(StoreOf(SubSeq(blocks, 1, Len(blocks) - 1)), blocks[Len(blocks)])

\* the candidate each encoded block stands for: bytes that are no block, a
\* block of one transaction signed by one peer, a block of two transactions
\* signed by two
WireOf(bytes) ==
    IF bytes = <<2, 2>>
    THEN LET txs == <<<<1>>>>
             p == BlockPayload(MerkleTree_hash(HashesOf(txs)), txs)
         IN  encode(<<SignatureOf_new(KeyPair(1), p)>>, p)
    ELSE IF bytes = <<3, 4>>
    THEN LET txs == <<<<1>>, <<2>>>>
             p == BlockPayload(MerkleTree_hash(HashesOf(txs)), txs)
         IN  encode(<<SignatureOf_new(KeyPair(1), p), SignatureOf_new(KeyPair(2), p)>>, p)
    ELSE MalformedWire

\* VersionedSignedBlock::decode_all_versioned
decode_all_versioned(bytes) == SignedBlock_decode(WireOf(bytes))

\* println!
Line(text, args) == [text |-> text, args |-> args]

\* a start index that takes the height as it is given
FromHeightAsGiven(from) == IF from = None THEN U64_MAX ELSE from[1]

\* main: the height the user counts from 1 becomes an index counted from 0;
\* without --from the index is u64::MAX
main_from_height(from) == IF from = None THEN U64_MAX ELSE from[1] - 1

\* a check that never takes the store for empty
NeverEmpty(index_count) == FALSE

\* print_blockchain: if index_count == 0
is_empty(index_count) == index_count = 0

\* print_blockchain: let from_height = if from_height >= index_count ...
clamp_from_height(from_height, index_count) ==
    IF from_height >= index_count THEN index_count - 1 ELSE from_height

\* print_blockchain: let block_count = if from_height + block_count > index_count ...
\* with sum the value the addition produced
clamp_block_count(sum, from_height, block_count, index_count) ==
    IF sum > index_count THEN index_count - from_height ELSE block_count

\* a height that forgets where the range starts
MetaIndexFromZero(from_height, i) == i

\* print_blockchain: let meta_index = from_height + i
meta_index_of(from_height, i) == from_height + i

InspectorHandle == 1

\* the inspector is started on a store that holds up to MaxBlocks blocks
InitInspector ==
    /\ PayloadAtRest
    /\ SecretAtRest
    /\ ConsumerAtRest
    /\ SetAtRest
    /\ DecodeAtRest
    /\ SignedAtRest
    /\ EngineAtRest
    /\ \E blocks \in SeqsUpTo(EncodedBlocks, MaxBlocks) : store = StoreOf(blocks)
    /\ \E from \in {None} \cup {Some(h) : h \in U64}, length \in U64,
          overflow_checks \in BOOLEAN :
        insp = [pc |-> "main", from |-> from, length |-> length,
                overflow_checks |-> overflow_checks,
                from_height |-> 0, block_count |-> 0, index_count |-> 0,
                block_indices |-> <<>>, i |-> 0,
                output |-> <<>>, calls |-> <<>>, panic |-> Line("", <<>>)]

Panic(message) == [insp EXCEPT !.pc = "panicked", !.panic = Line(message, <<>>)]

\* main
Main ==
    /\ insp.pc = "main"
    /\ insp' = IF insp.from = Some(0)
               THEN Panic("the \"from height\" you specify must not be 0")
               ELSE [insp EXCEPT !.pc = "print_blockchain",
                                 !.from_height = main_from_height(insp.from),
                                 !.block_count = insp.length]
    /\ UNCHANGED notInspectorVars

\* print_blockchain, to the check for an empty store: the store is opened
\* Unlocked and the index count is read
ReadCount ==
    /\ insp.pc = "print_blockchain"
    /\ store' = open(store, InspectorHandle, "Unlocked").store
    /\ LET index_count == read_index_count(store)
           counted == [insp EXCEPT !.index_count = index_count,
                                   !.calls = Append(@, [name |-> "read_index_count"])]
       IN  insp' =
             IF is_empty(index_count)
             THEN [counted EXCEPT !.pc = "returned",
                                  !.output = Append(@, Line("The block store is empty.", <<>>))]
             ELSE IF index_count = 0
             THEN [counted EXCEPT !.pc = "panicked", !.panic = Line("Index count is zero.", <<>>)]
             ELSE [counted EXCEPT !.pc = "clamp"]
    /\ UNCHANGED notStoreInspectorVars

\* print_blockchain: the requested range is cut to the blocks the store has
Clamp ==
    /\ insp.pc = "clamp"
    /\ LET from_height == clamp_from_height(insp.from_height, insp.index_count)
       IN  insp' =
             IF overflows(from_height, insp.block_count) /\ insp.overflow_checks
             THEN [Panic("attempt to add with overflow") EXCEPT !.from_height = from_height]
             ELSE [insp EXCEPT
                     !.pc = "read_block_indices",
                     !.from_height = from_height,
                     !.block_count =
                        clamp_block_count(wrapping_add(from_height, insp.block_count),
                                          from_height, insp.block_count, insp.index_count)]
    /\ UNCHANGED notInspectorVars

\* print_blockchain: the buffer of block_count entries is allocated and
\* filled by the store, and the header lines are printed
ReadIndices ==
    /\ insp.pc = "read_block_indices"
    /\ insp' =
         IF insp.block_count > vec_capacity THEN Panic("capacity overflow")
         ELSE LET r == read_block_indices(store, insp.from_height, insp.block_count)
                  asked == [insp EXCEPT !.calls =
                              Append(@, [name |-> "read_block_indices",
                                         from_height |-> insp.from_height,
                                         count |-> insp.block_count])]
              IN  IF ~r.ok
                  THEN [asked EXCEPT !.pc = "panicked",
                                     !.panic = Line("Failed to read block indices", <<>>)]
                  ELSE [asked EXCEPT
                          !.pc = "print",
                          !.block_indices = r.entries,
                          !.i = 0,
                          !.output = @ \o
                             <<Line("Index file says there are {index_count} blocks.",
                                    <<insp.index_count>>),
                               Line("Printing blocks {}-{}...",
                                    <<insp.from_height + 1,
                                      insp.from_height + insp.block_count>>)>>]
    /\ UNCHANGED notInspectorVars

\* one turn of the loop: block_indices[i] is read, decoded and printed
PrintBlock ==
    /\ insp.pc = "print"
    /\ insp.i < insp.block_count
    /\ LET idx == insp.block_indices[insp.i + 1]
           meta_index == meta_index_of(insp.from_height, insp.i)
           data == read_block_data(store, idx.start, idx.length)
           asked == [insp EXCEPT
                       !.output = Append(@,
                          Line("Block#{} starts at byte offset {} and is {} bytes long.",
                               <<meta_index + 1, idx.start, idx.length>>)),
                       !.calls = Append(@, [name |-> "read_block_data",
                                            offset |-> idx.start, length |-> idx.length])]
       IN  insp' =
             IF ~data.ok
             THEN [asked EXCEPT !.pc = "panicked",
                                !.panic = Line("Failed to read block {} data.",
                                                <<meta_index + 1>>)]
             ELSE IF ~decode_all_versioned(data.bytes).ok
             THEN [asked EXCEPT !.pc = "panicked",
                                !.panic = Line("Failed to decode block {}", <<meta_index + 1>>)]
             ELSE [asked EXCEPT
                     !.i = @ + 1,
                     !.output = @ \o
                        <<Line("Block#{} :", <<meta_index + 1>>),
                          Line("{block:#?}", <<decode_all_versioned(data.bytes).block>>)>>]
    /\ UNCHANGED notInspectorVars

\* the loop is over and print_blockchain returns
Finish ==
    /\ insp.pc = "print"
    /\ insp.i = insp.block_count
    /\ insp' = [insp EXCEPT !.pc = "returned"]
    /\ UNCHANGED notInspectorVars

NextInspector == Main \/ ReadCount \/ Clamp \/ ReadIndices \/ PrintBlock \/ Finish

SpecInspector == InitInspector /\ [][NextInspector]_vars

---------------------------------------------------------------------------
(* Claims about the inspector *)

Clamped == insp.pc \in {"read_block_indices", "print", "returned"} /\ insp.index_count > 0

\* C19: for every start height and every u64 length the request is clamped:
\* the clamping does not fail, and after it from_height < index_count and
\* from_height + block_count <= index_count, so the store is never asked
\* for entries past index_count.
C19_RangeClamped ==
    /\ Clamped =>
          /\ insp.from_height < insp.index_count
          /\ insp.from_height + insp.block_count <= insp.index_count
    /\ insp.pc = "panicked" =>
          insp.panic.text \notin {"attempt to add with overflow", "capacity overflow",
                             "Failed to read block indices"}

Ended == insp.pc \in {"returned", "panicked"}

\* C20 as claimed: on an empty store the inspector prints that the store is
\* empty and returns, whatever the start height and the length.
C20_EmptyStoreAnyArguments ==
    (Ended /\ read_index_count(store) = 0) =>
        /\ insp.pc = "returned"
        /\ insp.output = <<Line("The block store is empty.", <<>>)>>

\* C20: on an empty store, with a start height that main accepts (none, or
\* one that is not 0), the inspector prints that the store is empty and
\* returns; it has asked the store for the index count and nothing else.
\* With the start height 0 it stops in main before the store is opened.
C20_EmptyStoreReturns ==
    (Ended /\ read_index_count(store) = 0) =>
        IF insp.from = Some(0)
        THEN insp.pc = "panicked" /\ insp.calls = <<>> /\ insp.output = <<>>
        ELSE /\ insp.pc = "returned"
             /\ insp.output = <<Line("The block store is empty.", <<>>)>>
             /\ insp.calls = <<[name |-> "read_index_count"]>>

\* the inspector returned from an empty store it was asked to print from
\* the latest block, with the largest length
C20_Witness ==
    /\ read_index_count(store) = 0
    /\ insp.from = None
    /\ insp.length = U64_MAX
    /\ insp.pc = "returned"
    /\ insp.output # <<>>

\* the index entry and the block at a height counted from 1
EntryAt(height) == store.disk_index[height]
BlockAt(height) == decode_all_versioned(store.committed[height])

SameLine(a, b) == a.text = b.text /\ a.args = b.args

\* the lines the loop prints for the block at a height
MetaLine(height) ==
    Line("Block#{} starts at byte offset {} and is {} bytes long.",
         <<height, EntryAt(height).start, EntryAt(height).length>>)
BlockLines(height) ==
    <<MetaLine(height),
      Line("Block#{} :", <<height>>),
      Line("{block:#?}", <<BlockAt(height).block>>)>>

\* the loop has been entered: the range is fixed and the header is printed
Printing ==
    \/ insp.pc \in {"print", "returned"} /\ insp.index_count > 0
    \/ insp.pc = "panicked" /\ insp.panic.text \in {"Failed to read block {} data.",
                                                   "Failed to decode block {}"}

\* the first turn of the loop has printed its first line
FirstTurnDone == Len(insp.output) >= 3

\* C21 as claimed: without a start height the range starts at the latest
\* block, and with the default length 1 it is that block alone; a given
\* height h >= 1 selects index entry h - 1, reported as Block#h.
C21_StartAsClaimed ==
    Printing =>
        /\ insp.from = None => insp.from_height = insp.index_count - 1
        /\ (insp.from = None /\ insp.length = 1) =>
              insp.block_indices = <<EntryAt(insp.index_count)>>
        /\ insp.from # None =>
              /\ insp.from_height = insp.from[1] - 1
              /\ FirstTurnDone =>
                    /\ insp.block_indices[1] = EntryAt(insp.from[1])
                    /\ SameLine(insp.output[3], MetaLine(insp.from[1]))

\* C21: without a start height the range starts at the latest block, and
\* with the default length 1 it is that block alone; a given height h with
\* 1 <= h <= index_count selects index entry h - 1, reported as Block#h; a
\* given height above index_count selects the latest block.
C21_StartInCode ==
    Printing =>
        LET h == IF insp.from = None \/ insp.from[1] > insp.index_count
                 THEN insp.index_count ELSE insp.from[1]
        IN  /\ insp.from_height = h - 1
            /\ (insp.from = None /\ insp.length = 1) =>
                  insp.block_indices = <<EntryAt(insp.index_count)>>
            /\ FirstTurnDone =>
                  /\ insp.block_indices[1] = EntryAt(h)
                  /\ SameLine(insp.output[3], MetaLine(h))

\* with no start height and length 1 the second of two blocks was printed
C21_Witness ==
    /\ insp.from = None
    /\ insp.length = 1
    /\ insp.index_count = 2
    /\ insp.pc = "returned"
    /\ insp.i = 1
    /\ SameLine(insp.output[5], BlockLines(2)[3])

SameLines(a, b) ==
    /\ Len(a) = Len(b)
    /\ \A j \in 1..Len(a) : SameLine(a[j], b[j])

\* the lines printed for the n blocks above from_height, in ascending order
RECURSIVE PrintedBlocks(_, _)
PrintedBlocks(from_height, n) ==
    IF n = 0 THEN <<>>
    ELSE PrintedBlocks(from_height, n - 1) \o BlockLines(from_height + n)

\* what the loop has printed, after the two lines of the header
Body == SubSeq(insp.output, 3, Len(insp.output))

FailedInLoop ==
    /\ insp.pc = "panicked"
    /\ insp.panic.text \in {"Failed to read block {} data.", "Failed to decode block {}"}

\* C22: the blocks are read and printed in ascending height order; when the
\* block at height h cannot be read or decoded the process aborts with a
\* diagnostic that names h, after every selected block below h was printed
\* and before any block above h is.
C22_DecodeFailureFatalOrdered ==
    Printing =>
        LET h == insp.from_height + insp.i + 1
        IN  /\ insp.i <= insp.block_count
            /\ \A k \in 1..insp.i : BlockAt(insp.from_height + k).ok
            /\ ~FailedInLoop =>
                  SameLines(Body, PrintedBlocks(insp.from_height, insp.i))
            /\ FailedInLoop =>
                  /\ ~BlockAt(h).ok
                  /\ insp.panic.args = <<h>>
                  /\ SameLines(Body, PrintedBlocks(insp.from_height, insp.i)
                                        \o <<MetaLine(h)>>)
            /\ insp.pc = "returned" => insp.i = insp.block_count
            /\ (insp.pc = "print" /\ insp.i < insp.block_count) =>
                  insp.block_indices[insp.i + 1] = EntryAt(h)

\* asked for two blocks from height 1, the inspector printed block 1 and
\* aborted on block 2, which does not decode
C22_Witness ==
    /\ FailedInLoop
    /\ insp.panic.text = "Failed to decode block {}"
    /\ insp.from_height = 0
    /\ insp.i = 1
    /\ insp.block_count = 2
    /\ insp.panic.args = <<2>>

---------------------------------------------------------------------------
(* Claims about equality and order of signatures *)

SameBytes(a, b) == a.public_key = b.public_key /\ a.payload = b.payload

\* C23: two typed signatures are equal, and order as Equal, exactly when
\* their public keys and their payload bytes are equal; as set elements
\* they are equal, order as Equal and hash alike exactly when their public
\* keys are equal, so two signatures of one signer with different payloads
\* are unequal values that collide in a set.
C23_DualEquality ==
    op.name = "compare" =>
        /\ op.eq = SameBytes(op.a, op.b)
        /\ (op.cmp = "Equal") = SameBytes(op.a, op.b)
        /\ op.same_hash = SameBytes(op.a, op.b)
        /\ op.wrapper_eq = (op.a.public_key = op.b.public_key)
        /\ (op.wrapper_cmp = "Equal") = (op.a.public_key = op.b.public_key)
        /\ op.wrapper_same_hash = (op.a.public_key = op.b.public_key)
        /\ (len(op.both) = 1) = (op.a.public_key = op.b.public_key)

\* two signatures of one signer with different payloads were compared
C23_Witness ==
    /\ op.name = "compare"
    /\ op.a.public_key = op.b.public_key
    /\ op.a.payload # op.b.payload
    /\ ~op.eq
    /\ op.wrapper_eq
    /\ len(op.both) = 1

ElementsOf(s) == {s[i] : i \in 1..Len(s)}

Ascending(s) ==
    \A i, j \in 1..Len(s) :
        i < j => PublicKey_cmp(s[i].public_key, s[j].public_key) = "Less"

\* C24: iterating a set yields each retained signature once, in ascending
\* order of public key; signatures with distinct public keys give the same
\* set, in the same order, in whatever order they were inserted.
C24_IterationAscending ==
    /\ Ascending(sigs)
    /\ op.name = "iter" =>
          /\ Ascending(op.items)
          /\ Len(op.items) = Len(sigs)
          /\ ElementsOf(op.items) = ElementsOf(sigs)
    /\ (op.name = "collect" /\ Unique(op.input)) =>
          ElementsOf(sigs) = ElementsOf(op.input)
    /\ (op.name = "extend" /\ Unique(op.before \o op.input)) =>
          ElementsOf(sigs) = ElementsOf(op.before) \cup ElementsOf(op.input)

\* two signatures were collected that came in descending order of public key
C24_Witness ==
    /\ op.name = "collect"
    /\ Len(op.input) = 2
    /\ PublicKey_cmp(op.input[1].public_key, op.input[2].public_key) = "Greater"
    /\ Len(sigs) = 2

\* C30: collecting a sequence of signatures retains, for every public key,
\* the payload that inserting the signatures one at a time, in the same
\* order, into an empty set retains.
C30_CollectAsInsert ==
    op.name = "collect" => sigs = extend(BTreeSet_new, op.input)

---------------------------------------------------------------------------
(* BlockPayload: equality and order.  A header is compared field by field *)
(* in the order of declaration; height and transactions_hash stand for    *)
(* its seven fields, and the bytes of a hash are a number.                *)

Headers ==
    {[height |-> h, transactions_hash |-> t] :
        h \in 1..MaxBlocks, t \in {None} \cup {Some(d) : d \in 1..MaxValues}}

Payloads ==
    {[header |-> h, transactions |-> txs, event_recommendations |-> ev] :
        h \in Headers,
        txs \in SeqsUpTo(TransactionValues, 1),
        ev \in SeqsUpTo({"event"}, 1)}

\* Ord for u64
u64_cmp(a, b) == IF a < b THEN "Less" ELSE IF a = b THEN "Equal" ELSE "Greater"

\* derive(Ord) for Option: None is less than Some
Option_cmp(a, b) ==
    IF a = None /\ b = None THEN "Equal"
    ELSE IF a = None THEN "Less"
    ELSE IF b = None THEN "Greater"
    ELSE u64_cmp(a[1], b[1])

\* derive(PartialEq) and derive(Ord) for BlockHeader
BlockHeader_eq(a, b) ==
    a.height = b.height /\ a.transactions_hash = b.transactions_hash
BlockHeader_cmp(a, b) ==
    IF u64_cmp(a.height, b.height) # "Equal" THEN u64_cmp(a.height, b.height)
    ELSE Option_cmp(a.transactions_hash, b.transactions_hash)

\* an equality of payloads that looks at the transactions too
EqWithTransactions(a, b) ==
    BlockHeader_eq(a.header, b.header) /\ a.transactions = b.transactions

\* PartialEq and Ord for BlockPayload
BlockPayload_eq(a, b) == BlockHeader_eq(a.header, b.header)
BlockPayload_cmp(a, b) == BlockHeader_cmp(a.header, b.header)

InitPayload ==
    /\ SetAtRest
    /\ DecodeAtRest
    /\ SignedAtRest
    /\ EngineAtRest
    /\ StoreAtRest
    /\ InspectorAtRest
    /\ PayloadAtRest
    /\ SecretAtRest
    /\ ConsumerAtRest

\* a == b and a.cmp(&b)
ComparePayloads ==
    /\ pay = Idle
    /\ \E a \in Payloads, b \in Payloads :
        pay' = [name |-> "compare", a |-> a, b |-> b,
                eq |-> BlockPayload_eq(a, b), cmp |-> BlockPayload_cmp(a, b)]
    /\ UNCHANGED notPayloadVars

ReturnPayload ==
    /\ pay # Idle
    /\ pay' = Idle
    /\ UNCHANGED notPayloadVars

NextPayload == ComparePayloads \/ ReturnPayload

SpecPayload == InitPayload /\ [][NextPayload]_vars

\* C25: two block payloads are equal, and compare as Equal, exactly when
\* their headers are equal, whatever their transactions and their event
\* recommendations.
C25_PayloadEqualityByHeader ==
    pay.name = "compare" =>
        /\ pay.eq = (pay.a.header = pay.b.header)
        /\ (pay.cmp = "Equal") = (pay.a.header = pay.b.header)

\* two payloads with one header and different transactions were compared
C25_Witness ==
    /\ pay.name = "compare"
    /\ pay.a.header = pay.b.header
    /\ pay.a.transactions # pay.b.transactions
    /\ pay.a.event_recommendations # pay.b.event_recommendations
    /\ pay.eq
    /\ pay.cmp = "Equal"

---------------------------------------------------------------------------
(* SecretString.  A string is the sequence of its characters.             *)

Chars == {"a", "b"}
Strings == SeqsUpTo(Chars, MaxInput)

REDACTED == <<"[", "R", "E", "D", "A", "C", "T", "E", "D", "]">>

\* derive(Constructor): SecretString::new
SecretString_new(string) == [inner |-> string]

\* SecretString::expose_secret
expose_secret(self) == self.inner

\* Debug for str: the string between double quotes (none of the characters
\* here needs an escape)
str_Debug_fmt(string) == <<"\"">> \o string \o <<"\"">>

\* Serialize for str: the string handed to Serializer::serialize_str
str_serialize(string) == [serialize_str |-> string]

\* a Debug that shows the field, as derive(Debug) would
DebugDerived(self) == <<"S", "(">> \o str_Debug_fmt(self.inner) \o <<")">>

\* Debug for SecretString; inside the impl, fmt is Debug::fmt
SecretString_fmt(self) == str_Debug_fmt(REDACTED)

\* Serialize for SecretString
SecretString_serialize(self) == str_serialize(REDACTED)

InitSecret == InitPayload

\* two secrets are made, formatted with {:?}, serialized and exposed
Show ==
    /\ sec = Idle
    /\ \E a \in Strings, b \in Strings :
        LET x == SecretString_new(a)
            y == SecretString_new(b)
        IN  sec' = [name |-> "show", a |-> a, b |-> b,
                    debug |-> <<SecretString_fmt(x), SecretString_fmt(y)>>,
                    serialized |-> <<SecretString_serialize(x), SecretString_serialize(y)>>,
                    exposed |-> <<expose_secret(x), expose_secret(y)>>]
    /\ UNCHANGED notSecretVars

ReturnSecret ==
    /\ sec # Idle
    /\ sec' = Idle
    /\ UNCHANGED notSecretVars

NextSecret == Show \/ ReturnSecret

SpecSecret == InitSecret /\ [][NextSecret]_vars

\* C26: for any two secrets, Debug formatting gives the same output, the
\* redaction marker as Debug shows a string, and Serialize gives the same
\* output, the redaction marker serialized as a string; only expose_secret
\* gives the string the secret was made of.
C26_SecretNeverShown ==
    sec.name = "show" =>
        /\ sec.debug[1] = sec.debug[2]
        /\ sec.debug[1] = str_Debug_fmt(REDACTED)
        /\ sec.serialized[1] = sec.serialized[2]
        /\ sec.serialized[1] = str_serialize(REDACTED)
        /\ sec.exposed = <<sec.a, sec.b>>

\* two different secrets were shown
C26_Witness ==
    /\ sec.name = "show"
    /\ sec.a # sec.b
    /\ Len(sec.a) = MaxInput
    /\ sec.exposed[1] # sec.exposed[2]
    /\ sec.debug[1] = sec.debug[2]

---------------------------------------------------------------------------
(* Consumer::stream_closed.  The stream is the sequence of what try_next  *)
(* will give: messages, or an error; after the last of them, None.        *)

MessageKinds == {"Close", "Text", "Ping"}
StreamItems ==
    {[ok |-> TRUE, message |-> k] : k \in MessageKinds} \cup {[ok |-> FALSE]}
Streams == SeqsUpTo(StreamItems, MaxInput)

\* TryStreamExt::try_next at position pos of the stream
try_next(stream, pos) ==
    IF pos >= Len(stream) THEN [ok |-> TRUE, item |-> None]
    ELSE IF stream[pos + 1].ok
         THEN [ok |-> TRUE, item |-> Some(stream[pos + 1].message)]
         ELSE [ok |-> FALSE]

\* a test that takes every message for a Close
AnyMessageCloses(message) == TRUE

\* Message::is_close
is_close(message) == message = "Close"

InitConsumer ==
    /\ SetAtRest
    /\ DecodeAtRest
    /\ SignedAtRest
    /\ EngineAtRest
    /\ StoreAtRest
    /\ InspectorAtRest
    /\ PayloadAtRest
    /\ SecretAtRest
    /\ \E stream \in Streams :
        cons = [pc |-> "stream_closed", stream |-> stream, pos |-> 0,
                warned |-> <<>>, result |-> "pending"]

Polling == cons.pc = "stream_closed"
Polled == try_next(cons.stream, cons.pos)

\* try_next gives a Close message: return Ok(())
ReceiveClose ==
    /\ Polling
    /\ Polled.ok /\ Polled.item # None /\ is_close(Polled.item[1])
    /\ cons' = [cons EXCEPT !.pos = @ + 1, !.pc = "returned", !.result = "Ok"]
    /\ UNCHANGED notConsumerVars

\* try_next gives another message: warn and poll again
ReceiveUnexpected ==
    /\ Polling
    /\ Polled.ok /\ Polled.item # None /\ ~is_close(Polled.item[1])
    /\ cons' = [cons EXCEPT !.pos = @ + 1, !.warned = Append(@, Polled.item[1])]
    /\ UNCHANGED notConsumerVars

\* try_next gives an error: the ? returns it as Error::Stream
ReceiveError ==
    /\ Polling
    /\ ~Polled.ok
    /\ cons' = [cons EXCEPT !.pos = @ + 1, !.pc = "returned",
                            !.result = "Error::Stream"]
    /\ UNCHANGED notConsumerVars

\* try_next gives None: the loop ends
StreamEnded ==
    /\ Polling
    /\ Polled.ok /\ Polled.item = None
    /\ cons' = [cons EXCEPT !.pc = "returned",
                            !.result = "Error::CantReceiveMessage"]
    /\ UNCHANGED notConsumerVars

NextConsumer == ReceiveClose \/ ReceiveUnexpected \/ ReceiveError \/ StreamEnded

SpecConsumer == InitConsumer /\ [][NextConsumer]_vars

\* the messages among the first n items of the stream, none a Close
OnlyUnexpected(stream, n) ==
    \A i \in 1..n : stream[i].ok /\ stream[i].message # "Close"

MessagesOf(stream, n) == [i \in 1..n |-> stream[i].message]

\* C28: stream_closed returns Ok at the first Close message, having warned
\* of every message before it; it returns CantReceiveMessage when the stream
\* ends with no Close message, and the stream's error when there is one; it
\* never returns Ok without a Close message received.
C28_StreamClosed ==
    /\ Polling =>
          /\ cons.result = "pending"
          /\ OnlyUnexpected(cons.stream, cons.pos)
          /\ cons.warned = MessagesOf(cons.stream, cons.pos)
    /\ cons.pc = "returned" =>
          /\ cons.pos >= 1 => OnlyUnexpected(cons.stream, cons.pos - 1)
          /\ cons.result = "Ok" =>
                /\ cons.pos >= 1
                /\ cons.stream[cons.pos].ok
                /\ cons.stream[cons.pos].message = "Close"
                /\ cons.warned = MessagesOf(cons.stream, cons.pos - 1)
          /\ cons.result = "Error::CantReceiveMessage" =>
                /\ cons.pos = Len(cons.stream)
                /\ OnlyUnexpected(cons.stream, cons.pos)
          /\ cons.result = "Error::Stream" =>
                /\ cons.pos >= 1
                /\ ~cons.stream[cons.pos].ok
          /\ cons.result \in {"Ok", "Error::CantReceiveMessage", "Error::Stream"}
          /\ (cons.pos >= 1 /\ cons.stream[cons.pos].ok
                /\ cons.stream[cons.pos].message = "Close") => cons.result = "Ok"

\* Ok was returned at a Close message that came after another message and
\* before the end of the stream
C28_Witness ==
    /\ cons.pc = "returned"
    /\ cons.result = "Ok"
    /\ Len(cons.warned) = 1
    /\ cons.pos < Len(cons.stream)
    /\ cons.stream[cons.pos].message = "Close"

---------------------------------------------------------------------------
(* Claims about the signatures of a block a peer holds *)

Added == call.name = "add_signature"

\* C27: add_signature returns an error and leaves the block's signature set
\* as it was when the signature does not verify against the block's
\* payload; when it verifies, the signature is in the set afterwards and
\* the payload is what it was.
C27_AddSignatureVerifiesFirst ==
    Added =>
        IF SignatureOf_verify(call.signature, call.before.payload) # "Ok"
        THEN /\ ~call.result
             /\ block = call.before
        ELSE /\ call.result
             /\ call.signature \in ElementsOf(block.signatures)
             /\ block.payload = call.before.payload

\* C29: from a block that decode accepted, after any calls of sign,
\* add_signature and replace_signatures, failed ones included, every
\* signature of the block verifies against the block's payload, and no call
\* changes the payload.
C29_AcceptedBlockInvariant ==
    /\ AllVerify(block.signatures, block.payload)
    /\ call.name \in {"sign", "add_signature", "replace_signatures"} =>
          block.payload = call.before.payload

\* a replacement failed after it had added a signature: the block is left
\* with a set that is neither the old one nor empty
C29_Witness ==
    /\ Replaced
    /\ ~call.result
    /\ block.signatures # <<>>
    /\ block.signatures # call.before.signatures

====
